---- MODULE Spec2Model ----
(***************************************************************************)
(* Property analysis pipeline of rei-tools                                 *)
(* (src/property_report/report_generator.py).                              *)
(*                                                                         *)
(* Money is held in cents (1 dollar = 100), financing_rate in whole        *)
(* percent, so that the arithmetic of the cost calculator is exact on the  *)
(* inputs enumerated below.  Python dicts are records; dict.get is Get.    *)
(* Optional values that are None are the string None.                      *)
(***************************************************************************)
EXTENDS Integers, Sequences, FiniteSets, TLC

VARIABLES
    self,                \* the ReportGenerator's configuration fields
    pc,                  \* position of generate_report
    zip_codes,           \* argument of generate_report: the zip entries
    all_listings,        \* Phase 1: listings collected so far
    distinct_zip_codes,  \* Phase 1: set of zip codes seen
    zi,                  \* Phase 1: number of zip entries already iterated
    all_analyses,        \* Phase 3: analyses appended so far / the returned list
    listing_calls,       \* provider calls issued: listing search
    sold_calls,          \* provider calls issued: sold-property search
    property_types,      \* argument of generate_report: the property types
    calls,               \* the provider calls issued, in order, with their outcomes
    unit_op,             \* unit specification: the function last applied
    unit_in,             \* unit specification: its arguments
    unit_out             \* unit specification: its result

vars == <<self, pc, zip_codes, all_listings, distinct_zip_codes, zi,
          all_analyses, listing_calls, sold_calls, property_types, calls,
          unit_op, unit_in, unit_out>>

pipeVars == <<pc, zip_codes, all_listings, distinct_zip_codes, zi,
              all_analyses, listing_calls, sold_calls, property_types, calls>>

unitVars == <<unit_op, unit_in, unit_out>>

-----------------------------------------------------------------------------
(* Bounds of the model                                                     *)

MaxZips == 2            \* zip entries passed to generate_report
MaxListingsPerZip == 2  \* listings in one listing-search response
MaxSold == 3            \* sold properties in one sold-property response

-----------------------------------------------------------------------------
(* Python helpers                                                          *)

None == "None"

\* dict.get(k, default)
Get(d, k, default) == IF k \in DOMAIN d THEN d[k] ELSE default

\* truthiness of dict.get(k) for a numeric value: present and non-zero
Truthy(d, k) == k \in DOMAIN d /\ d[k] # 0

\* d.get(k, 0) or default
GetOr(d, k, default) == IF Truthy(d, k) THEN d[k] ELSE default

Cents(dollars) == 100 * dollars

Reverse(s) == [i \in 1..Len(s) |-> s[Len(s) + 1 - i]]

\* seq[:n]
Take(s, n) == IF Len(s) <= n THEN s ELSE SubSeq(s, 1, n)

\* all sequences over S of length at most n
RECURSIVE SeqsUpTo(_, _)
SeqsUpTo(S, n) ==
    IF n = 0 THEN {<<>>}
    ELSE LET shorter == SeqsUpTo(S, n - 1)
         IN  shorter \cup {Append(s, x) : s \in {t \in shorter : Len(t) = n - 1}, x \in S}

\* list.sort(key=...): stable ascending sort of a sequence of [k, v] pairs.
\* Each element is inserted after every element whose key is not greater.
RECURSIVE InsertKeyed(_, _)
InsertKeyed(sorted, e) ==
    IF sorted = <<>> THEN <<e>>
    ELSE IF sorted[Len(sorted)].k <= e.k THEN Append(sorted, e)
    ELSE Append(InsertKeyed(SubSeq(sorted, 1, Len(sorted) - 1), e), sorted[Len(sorted)])

RECURSIVE SortKeyed(_)
SortKeyed(s) ==
    IF s = <<>> THEN <<>>
    ELSE InsertKeyed(SortKeyed(SubSeq(s, 1, Len(s) - 1)), s[Len(s)])

-----------------------------------------------------------------------------
(* Arithmetic                                                              *)

\* rate (whole percent) times an amount of cents, without overflowing
RateTimes(rate, x) == rate * (x \div 100) + (rate * (x % 100)) \div 100

\* f"{price:,.0f}" of an amount of cents: whole dollars, round half to even
FormatPrice(cents) ==
    LET q == cents \div 100
        r == cents % 100
    IN  IF r < 50 THEN q
        ELSE IF r > 50 THEN q + 1
        ELSE IF q % 2 = 0 THEN q ELSE q + 1

-----------------------------------------------------------------------------
(* ReportGenerator                                                         *)

DisplayLimit == 5       \* comparables[:5]
CompFloorNum == 3       \* subject_list_price * 1.5, as the fraction 3/2
CompFloorDen == 2

\* as PropertyAnalysis, with "Yes" as the default decision
PropertyAnalysisDefaultYes(address, zip_code, list_price, square_footage, property_type, bedrooms, bathrooms) ==
    [address |-> address, zip_code |-> zip_code, list_price |-> list_price,
     square_footage |-> square_footage, property_type |-> property_type,
     bedrooms |-> bedrooms, bathrooms |-> bathrooms,
     best_offer_price |-> 0, best_offer_comparables |-> <<>>,
     build_up_cost |-> 0, financing_cost |-> 0, all_inclusive_cost |-> 0,
     upside_value |-> 0, upside_comparables |-> <<>>,
     upside_profit |-> 0, decision |-> "Yes", error_message |-> None]

\* PropertyAnalysis(...) with the dataclass defaults
PropertyAnalysis(address, zip_code, list_price, square_footage, property_type, bedrooms, bathrooms) ==
    [address |-> address, zip_code |-> zip_code, list_price |-> list_price,
     square_footage |-> square_footage, property_type |-> property_type,
     bedrooms |-> bedrooms, bathrooms |-> bathrooms,
     best_offer_price |-> 0, best_offer_comparables |-> <<>>,
     build_up_cost |-> 0, financing_cost |-> 0, all_inclusive_cost |-> 0,
     upside_value |-> 0, upside_comparables |-> <<>>,
     upside_profit |-> 0, decision |-> "No", error_message |-> None]

\* as CalculateCosts, with the financing charged on the offer alone
CalculateCostsOfferOnly(best_offer_price, square_footage) ==
    LET build_up_cost == self.build_up_cost_per_sqft * square_footage
        financing_cost == RateTimes(self.financing_rate, best_offer_price)
        all_inclusive_cost == best_offer_price + build_up_cost + financing_cost
    IN  <<build_up_cost, financing_cost, all_inclusive_cost>>

\* _calculate_costs: <<build_up_cost, financing_cost, all_inclusive_cost>>
CalculateCosts(best_offer_price, square_footage) ==
    LET build_up_cost == self.build_up_cost_per_sqft * square_footage
        financing_cost == RateTimes(self.financing_rate, best_offer_price + build_up_cost)
        all_inclusive_cost == best_offer_price + build_up_cost + financing_cost
    IN  <<build_up_cost, financing_cost, all_inclusive_cost>>

\* One display string of _format_comparable_addresses, kept as its parts:
\* the address alone, or the address and the formatted price.
FormatComparable(comp) ==
    LET addr == IF "formattedAddress" \in DOMAIN comp /\ comp.formattedAddress # ""
                THEN comp.formattedAddress
                ELSE Get(comp, "addressLine1", "Unknown")
        price == IF Truthy(comp, "price") THEN comp.price
                 ELSE Get(comp, "lastSalePrice", 0)
    IN  IF price # 0 THEN <<addr, FormatPrice(price)>> ELSE <<addr>>

\* as FormatComparableAddresses, without the limit on the number of entries
FormatComparableAddressesAll(comparables) ==
    [i \in 1..Len(comparables) |-> FormatComparable(comparables[i])]

\* _format_comparable_addresses
FormatComparableAddresses(comparables) ==
    LET top == Take(comparables, DisplayLimit)
    IN  [i \in 1..Len(top) |-> FormatComparable(top[i])]

\* as KeepComp, with the upper end of the band exclusive
KeepCompExclusive(prop, subject_list_price) ==
    LET sale_price == Get(prop, "lastSalePrice", 0)
    IN  /\ sale_price # 0
        /\ CompFloorDen * sale_price >= CompFloorNum * subject_list_price
        /\ sale_price < self.comp_price_threshold

\* the test of one sold property in _filter_and_analyze_comps
KeepComp(prop, subject_list_price) ==
    LET sale_price == Get(prop, "lastSalePrice", 0)
    IN  /\ sale_price # 0
        /\ CompFloorDen * sale_price >= CompFloorNum * subject_list_price
        /\ sale_price <= self.comp_price_threshold

\* the record appended for a kept sold property (the fields read downstream)
FilteredComp(prop) ==
    [formattedAddress |->
        IF "formattedAddress" \in DOMAIN prop /\ prop.formattedAddress # ""
        THEN prop.formattedAddress ELSE Get(prop, "addressLine1", ""),
     price |-> Get(prop, "lastSalePrice", 0)]

\* filtered_comps.sort(key=lambda x: x["price"])
SortCompsByPrice(comps) ==
    LET keyed == [i \in 1..Len(comps) |-> [k |-> comps[i].price, v |-> comps[i]]]
        sorted == SortKeyed(keyed)
    IN  [i \in 1..Len(sorted) |-> sorted[i].v]

\* as FilterAndAnalyzeComps, without the sort by price
FilterAndAnalyzeCompsUnsorted(sold_properties, subject_list_price, subject_sqft) ==
    LET Keep(prop) == KeepComp(prop, subject_list_price)
        kept == SelectSeq(sold_properties, Keep)
        filtered_comps == [i \in 1..Len(kept) |-> FilteredComp(kept[i])]
    IN  IF filtered_comps = <<>> THEN <<0, 0, <<>> >>
        ELSE <<filtered_comps[1].price, filtered_comps[Len(filtered_comps)].price,
               filtered_comps>>

\* _filter_and_analyze_comps: <<min_price, max_price, filtered_comps>>
FilterAndAnalyzeComps(sold_properties, subject_list_price, subject_sqft) ==
    LET Keep(prop) == KeepComp(prop, subject_list_price)
        kept == SelectSeq(sold_properties, Keep)
        filtered_comps == SortCompsByPrice([i \in 1..Len(kept) |-> FilteredComp(kept[i])])
    IN  IF filtered_comps = <<>> THEN <<0, 0, <<>> >>
        ELSE <<filtered_comps[1].price, filtered_comps[Len(filtered_comps)].price,
               filtered_comps>>

\* "if not latitude or not longitude" is false
\* as HasCoordinates, looking at the latitude only
HasLatitude(listing) == Truthy(listing, "latitude")

HasCoordinates(listing) == Truthy(listing, "latitude") /\ Truthy(listing, "longitude")

\* as Score, with the decision taken at upside_profit >= upside_threshold
ScoreInclusive(analysis, comps) ==
    LET costs == CalculateCosts(analysis.list_price, analysis.square_footage)
        max_upside_profit == comps[2] - costs[3]
    IN  [analysis EXCEPT
            !.best_offer_price = analysis.list_price,
            !.best_offer_comparables = FormatComparableAddresses(comps[3]),
            !.build_up_cost = costs[1],
            !.financing_cost = costs[2],
            !.all_inclusive_cost = costs[3],
            !.upside_value = comps[2],
            !.upside_comparables = FormatComparableAddresses(comps[3]),
            !.upside_profit = max_upside_profit,
            !.decision = IF max_upside_profit >= self.upside_threshold THEN "Yes" ELSE "No"]

\* as Score, with the profit and the decision taken from the minimum comparable
ScoreMinProfit(analysis, comps) ==
    LET costs == CalculateCosts(analysis.list_price, analysis.square_footage)
        min_upside_profit == comps[1] - costs[3]
    IN  [analysis EXCEPT
            !.best_offer_price = analysis.list_price,
            !.best_offer_comparables = FormatComparableAddresses(comps[3]),
            !.build_up_cost = costs[1],
            !.financing_cost = costs[2],
            !.all_inclusive_cost = costs[3],
            !.upside_value = comps[2],
            !.upside_comparables = FormatComparableAddresses(comps[3]),
            !.upside_profit = min_upside_profit,
            !.decision = IF min_upside_profit > self.upside_threshold THEN "Yes" ELSE "No"]

\* as Score, with the cost breakdown left out of the record
ScoreWithoutBreakdown(analysis, comps) ==
    LET costs == CalculateCosts(analysis.list_price, analysis.square_footage)
        max_upside_profit == comps[2] - costs[3]
    IN  [analysis EXCEPT
            !.best_offer_price = analysis.list_price,
            !.best_offer_comparables = FormatComparableAddresses(comps[3]),
            !.all_inclusive_cost = costs[3],
            !.upside_value = comps[2],
            !.upside_comparables = FormatComparableAddresses(comps[3]),
            !.upside_profit = max_upside_profit,
            !.decision = IF max_upside_profit > self.upside_threshold THEN "Yes" ELSE "No"]

\* the scoring branch of _analyze_property, once comps survived the filter
Score(analysis, comps) ==
    LET min_comp_price == comps[1]
        max_comp_price == comps[2]
        filtered_comps == comps[3]
        best_offer_price == analysis.list_price
        costs == CalculateCosts(best_offer_price, analysis.square_footage)
        all_inclusive == costs[3]
        min_upside_profit == min_comp_price - all_inclusive
        max_upside_profit == max_comp_price - all_inclusive
    IN  [analysis EXCEPT
            !.best_offer_price = best_offer_price,
            !.best_offer_comparables = FormatComparableAddresses(filtered_comps),
            !.build_up_cost = costs[1],
            !.financing_cost = costs[2],
            !.all_inclusive_cost = all_inclusive,
            !.upside_value = max_comp_price,
            !.upside_comparables = FormatComparableAddresses(filtered_comps),
            !.upside_profit = max_upside_profit,
            !.decision = IF max_upside_profit > self.upside_threshold THEN "Yes" ELSE "No"]

\* as AnalyzeProperty, with the offer and the costs recorded before the filter result is tested
AnalyzePropertyEager(listing, resp) ==
    LET analysis == PropertyAnalysis(
            Get(listing, "formattedAddress", ""),
            Get(listing, "zipCode", ""),
            Get(listing, "price", 0),
            GetOr(listing, "squareFootage", 1000),
            Get(listing, "propertyType", "Single Family"),
            GetOr(listing, "bedrooms", 3),
            GetOr(listing, "bathrooms", 2))
        costs == CalculateCosts(analysis.list_price, analysis.square_footage)
        eager == [analysis EXCEPT !.best_offer_price = analysis.list_price,
                                  !.build_up_cost = costs[1],
                                  !.financing_cost = costs[2],
                                  !.all_inclusive_cost = costs[3]]
    IN  IF ~HasCoordinates(listing)
        THEN [analysis EXCEPT !.error_message = "No coordinates available for property"]
        ELSE IF ~resp.ok
        THEN [analysis EXCEPT !.error_message = resp.error]
        ELSE IF resp.body = <<>>
        THEN [analysis EXCEPT !.error_message = "No comparable sold properties found"]
        ELSE LET comps == FilterAndAnalyzeComps(resp.body, analysis.list_price,
                                                analysis.square_footage)
             IN  IF comps[3] = <<>>
                 THEN [eager EXCEPT
                          !.error_message = "No valid comparable properties after filtering"]
                 ELSE Score(analysis, comps)

\* as AnalyzeProperty, with a fixed message in place of the provider error's own
AnalyzePropertyGenericError(listing, resp) ==
    LET analysis == PropertyAnalysis(
            Get(listing, "formattedAddress", ""),
            Get(listing, "zipCode", ""),
            Get(listing, "price", 0),
            GetOr(listing, "squareFootage", 1000),
            Get(listing, "propertyType", "Single Family"),
            GetOr(listing, "bedrooms", 3),
            GetOr(listing, "bathrooms", 2))
    IN  IF ~HasCoordinates(listing)
        THEN [analysis EXCEPT !.error_message = "No coordinates available for property"]
        ELSE IF ~resp.ok
        THEN [analysis EXCEPT !.error_message = "Failed to fetch comparable properties"]
        ELSE IF resp.body = <<>>
        THEN [analysis EXCEPT !.error_message = "No comparable sold properties found"]
        ELSE LET comps == FilterAndAnalyzeComps(resp.body, analysis.list_price,
                                                analysis.square_footage)
             IN  IF comps[3] = <<>>
                 THEN [analysis EXCEPT
                          !.error_message = "No valid comparable properties after filtering"]
                 ELSE Score(analysis, comps)

\* as AnalyzeProperty, with the no-comparables message also after the filter
AnalyzePropertyOneMessage(listing, resp) ==
    LET analysis == PropertyAnalysis(
            Get(listing, "formattedAddress", ""),
            Get(listing, "zipCode", ""),
            Get(listing, "price", 0),
            GetOr(listing, "squareFootage", 1000),
            Get(listing, "propertyType", "Single Family"),
            GetOr(listing, "bedrooms", 3),
            GetOr(listing, "bathrooms", 2))
    IN  IF ~HasCoordinates(listing)
        THEN [analysis EXCEPT !.error_message = "No coordinates available for property"]
        ELSE IF ~resp.ok
        THEN [analysis EXCEPT !.error_message = resp.error]
        ELSE IF resp.body = <<>>
        THEN [analysis EXCEPT !.error_message = "No comparable sold properties found"]
        ELSE LET comps == FilterAndAnalyzeComps(resp.body, analysis.list_price,
                                                analysis.square_footage)
             IN  IF comps[3] = <<>>
                 THEN [analysis EXCEPT
                          !.error_message = "No comparable sold properties found"]
                 ELSE Score(analysis, comps)

\* _analyze_property.  resp is the outcome of the sold-property search the
\* provider gives for this listing: [ok |-> TRUE, body |-> list] or
\* [ok |-> FALSE, error |-> message of the RentcastAPIError]; it is read
\* only when the call is issued.
AnalyzeProperty(listing, resp) ==
    LET analysis == PropertyAnalysis(
            Get(listing, "formattedAddress", ""),
            Get(listing, "zipCode", ""),
            Get(listing, "price", 0),
            GetOr(listing, "squareFootage", 1000),
            Get(listing, "propertyType", "Single Family"),
            GetOr(listing, "bedrooms", 3),
            GetOr(listing, "bathrooms", 2))
    IN  IF ~HasCoordinates(listing)
        THEN [analysis EXCEPT !.error_message = "No coordinates available for property"]
        ELSE IF ~resp.ok
        THEN [analysis EXCEPT !.error_message = resp.error]
        ELSE IF resp.body = <<>>
        THEN [analysis EXCEPT !.error_message = "No comparable sold properties found"]
        ELSE LET comps == FilterAndAnalyzeComps(resp.body, analysis.list_price,
                                                analysis.square_footage)
             IN  IF comps[3] = <<>>
                 THEN [analysis EXCEPT
                          !.error_message = "No valid comparable properties after filtering"]
                 ELSE Score(analysis, comps)

\* as SortListingsByPrice, with the listings left in the order of the response
ListingsAsReturned(listings) == listings

\* listings.sort(key=lambda x: x.get("price", 0), reverse=False)
SortListingsByPrice(listings) ==
    LET keyed == [i \in 1..Len(listings) |->
                     [k |-> Get(listings[i], "price", 0), v |-> listings[i]]]
        sorted == SortKeyed(keyed)
    IN  [i \in 1..Len(sorted) |-> sorted[i].v]

\* as SortAnalysesByProfitDesc, without reverse=True
SortAnalysesAscending(analyses) ==
    LET keyed == [i \in 1..Len(analyses) |->
                     [k |-> analyses[i].upside_profit, v |-> analyses[i]]]
        sorted == SortKeyed(keyed)
    IN  [i \in 1..Len(sorted) |-> sorted[i].v]

\* as SortAnalysesByProfitDesc, sorting ascending and then reversing the result
SortAnalysesThenReverse(analyses) == Reverse(SortAnalysesAscending(analyses))

\* as SortAnalysesByProfitDesc, with the list left as the analysis loop built it
SortAnalysesSkipped(analyses) == analyses

\* as SortAnalysesByProfitDesc, with upside_value as the sort key
SortAnalysesByValueDesc(analyses) ==
    LET keyed == [i \in 1..Len(analyses) |->
                     [k |-> analyses[i].upside_value, v |-> analyses[i]]]
        sorted == Reverse(SortKeyed(Reverse(keyed)))
    IN  [i \in 1..Len(sorted) |-> sorted[i].v]

\* all_analyses.sort(key=lambda x: x.upside_profit, reverse=True):
\* list.sort reverses, sorts stably ascending, and reverses again
SortAnalysesByProfitDesc(analyses) ==
    LET keyed == [i \in 1..Len(analyses) |->
                     [k |-> analyses[i].upside_profit, v |-> analyses[i]]]
        sorted == Reverse(SortKeyed(Reverse(keyed)))
    IN  [i \in 1..Len(sorted) |-> sorted[i].v]

\* total_api_calls of generate_report
TotalApiCalls == Cardinality(distinct_zip_codes) + Len(all_listings)

NoBudgetCheck == FALSE

BudgetExceededInclusive == TotalApiCalls >= self.max_api_calls

\* "if total_api_calls > self.max_api_calls"
BudgetExceeded == TotalApiCalls > self.max_api_calls

-----------------------------------------------------------------------------
(* RentcastClient: the query a call sends.  Keyword arguments are a        *)
(* record; an argument that is None is a key the record does not have.     *)

NoParams == [k \in {} |-> 0]

\* "x is not None", for the keyword argument k
Given(args, k) == k \in DOMAIN args

\* int(x) of an amount of cents, as whole dollars: truncation toward zero
IntOfMoney(cents) == IF cents >= 0 THEN cents \div 100 ELSE -((-cents) \div 100)

\* int(x) of a count (bedrooms, bathrooms, square feet)
IntOfCount(n) == n

\* int(x) of a bound: of an amount of money, or of a count
IntOf(x, money) == IF money THEN IntOfMoney(x) ELSE IntOfCount(x)

\* one side of a "min:max" value: the wildcard "*" or str(int(x))
Wildcard == [wildcard |-> TRUE]
Number(n) == [wildcard |-> FALSE, value |-> n]

\* as RangeParam, with "*:*" sent when both bounds are None
RangeParamAlways(args, kmin, kmax, name, money) ==
    name :> [min |-> IF Given(args, kmin) THEN Number(IntOf(args[kmin], money)) ELSE Wildcard,
             max |-> IF Given(args, kmax) THEN Number(IntOf(args[kmax], money)) ELSE Wildcard]

\* as RangeParam, with the raw value in place of int(x)
RangeParamRaw(args, kmin, kmax, name, money) ==
    IF Given(args, kmin) \/ Given(args, kmax)
    THEN name :> [min |-> IF Given(args, kmin) THEN Number(args[kmin]) ELSE Wildcard,
                  max |-> IF Given(args, kmax) THEN Number(args[kmax]) ELSE Wildcard]
    ELSE NoParams

\* a range parameter of the query: f"{min_str}:{max_str}" under the name it is sent
\* by, or nothing when both bounds are None (_make_request drops a None parameter)
RangeParam(args, kmin, kmax, name, money) ==
    IF Given(args, kmin) \/ Given(args, kmax)
    THEN name :> [min |-> IF Given(args, kmin) THEN Number(IntOf(args[kmin], money)) ELSE Wildcard,
                  max |-> IF Given(args, kmax) THEN Number(IntOf(args[kmax], money)) ELSE Wildcard]
    ELSE NoParams

\* a parameter that is sent only when its argument is not None
OptionalParam(args, k, name) == IF Given(args, k) THEN name :> args[k] ELSE NoParams

\* get_sale_listings: the query parameters that reach the provider
GetSaleListingsParams(args) ==
    ("zipCode" :> args.zip_code)
        @@ OptionalParam(args, "property_type", "propertyType")
        @@ RangeParam(args, "min_price", "max_price", "price", TRUE)
        @@ RangeParam(args, "min_sqft", "max_sqft", "squareFootage", FALSE)

\* get_sold_properties: the query parameters that reach the provider
GetSoldPropertiesParams(args) ==
    OptionalParam(args, "latitude", "latitude")
        @@ OptionalParam(args, "longitude", "longitude")
        @@ RangeParam(args, "bedrooms_min", "bedrooms_max", "bedrooms", FALSE)
        @@ RangeParam(args, "bathrooms_min", "bathrooms_max", "bathrooms", FALSE)
        @@ RangeParam(args, "sqft_min", "sqft_max", "squareFootage", FALSE)
        @@ OptionalParam(args, "property_type", "propertyType")

-----------------------------------------------------------------------------
(* The provider and the inputs of a run                                    *)

\* injective sequences over S of length at most n
InjSeqsUpTo(S, n) ==
    {s \in SeqsUpTo(S, n) : \A i, j \in 1..Len(s) : i # j => s[i] # s[j]}

DefaultConfig ==
    [build_up_cost_per_sqft |-> Cents(75), financing_rate |-> 12,
     upside_threshold |-> Cents(30000), comp_price_threshold |-> Cents(500000),
     max_api_calls |-> 50]

ZipPool == {"z1", "z2"}
BulkZips == {"b10", "b5", "b8"}
BulkSize(zip) == IF zip = "b10" THEN 10 ELSE IF zip = "b5" THEN 5 ELSE 8

\* listings the provider may return for an ordinary zip code
ListingPool ==
    { [formattedAddress |-> "a1", price |-> Cents(200000), squareFootage |-> 1000,
       latitude |-> 1, longitude |-> 1],
      [formattedAddress |-> "a2", price |-> Cents(100000), latitude |-> 1, longitude |-> 1],
      [formattedAddress |-> "a3", price |-> Cents(200000), squareFootage |-> 1200,
       latitude |-> 1] }

BulkListing(i) == [formattedAddress |-> "bulk", price |-> Cents(100000 + i)]

WithZip(listing, zip) == listing @@ ("zipCode" :> zip)

\* bodies of a successful listing search for zip
ListingResponses(zip) ==
    IF zip \in BulkZips
    THEN {[i \in 1..BulkSize(zip) |-> WithZip(BulkListing(BulkSize(zip) + 1 - i), zip)]}
    ELSE {[i \in 1..Len(s) |-> WithZip(s[i], zip)] :
             s \in InjSeqsUpTo(ListingPool, MaxListingsPerZip)}

ProviderErrors == {"API request failed: 500 Server Error", "Network error: timed out"}

SoldPool ==
    { [formattedAddress |-> "s1", lastSalePrice |-> Cents(310000)],
      [formattedAddress |-> "s2", lastSalePrice |-> Cents(360000)],
      [formattedAddress |-> "s3", lastSalePrice |-> Cents(190000)] }

\* outcomes of a sold-property search
SoldResponses(pool, errors) ==
    {[ok |-> TRUE, body |-> b] : b \in InjSeqsUpTo(pool, MaxSold)}
        \cup {[ok |-> FALSE, error |-> e] : e \in errors}

NoResponse == [ok |-> TRUE, body |-> <<>>]

\* sold-property outcomes offered to generate_report: every subset of SoldPool in
\* ascending price order (the order of a body is exercised by UnitSpec), and the errors
PipelineSoldResponses ==
    {r \in SoldResponses(SoldPool, ProviderErrors) :
        r.ok => \A i \in 1..(Len(r.body) - 1) :
                    r.body[i].lastSalePrice < r.body[i + 1].lastSalePrice}

\* a run of generate_report: the generator's configuration and the zip entries
Runs ==
    {[self |-> [DefaultConfig EXCEPT !.max_api_calls = m], zip_codes |-> z] :
        m \in {3, 4},
        z \in {s \in SeqsUpTo({[zip_code |-> c] : c \in ZipPool}, MaxZips) : s # <<>>}}
    \cup {[self |-> [DefaultConfig EXCEPT !.max_api_calls = 20],
           zip_codes |-> <<[zip_code |-> "b10"], [zip_code |-> "b5"], [zip_code |-> "b8"]>>]}

\* the property_types argument: none given, or two types
PropertyTypeChoices == {<<>>, <<"Single Family", "Townhouse">>}

\* sep.join(parts), kept as its separator and its parts; no value when parts is empty
Join(sep, parts) == IF parts = <<>> THEN [sep |-> None, parts |-> <<>>]
                    ELSE [sep |-> sep, parts |-> parts]

\* property_type_param of the listing search: the types in one comma-joined value
ListingTypeParam == Join(",", property_types)

\* property_type_param of the sold-property search
SoldTypeParam(listing) ==
    IF property_types # <<>> THEN Join("|", property_types)
    ELSE Join("|", <<Get(listing, "propertyType", "Single Family")>>)

\* the log entry of one listing search
ListingCall(zip_code, ok, n) ==
    [kind |-> "listings", zip_code |-> zip_code, property_type |-> ListingTypeParam,
     ok |-> ok, n |-> n]

BedroomsMax == 5        \* bedrooms_max=5
BathroomsMax == 4       \* bathrooms_max=4
SqftBelow == 200        \* sqft_min=square_footage - 200
SqftAbove == 400        \* sqft_max=square_footage + 400

\* as SubjectOf, with the listing's own values where it has them, zero included
SubjectRaw(listing) ==
    PropertyAnalysis(
        Get(listing, "formattedAddress", ""),
        Get(listing, "zipCode", ""),
        Get(listing, "price", 0),
        Get(listing, "squareFootage", 1000),
        Get(listing, "propertyType", "Single Family"),
        Get(listing, "bedrooms", 3),
        Get(listing, "bathrooms", 2))

\* the PropertyAnalysis _analyze_property starts from: the listing's attributes,
\* with the defaults for those missing or zero
SubjectOf(listing) ==
    PropertyAnalysis(
        Get(listing, "formattedAddress", ""),
        Get(listing, "zipCode", ""),
        Get(listing, "price", 0),
        GetOr(listing, "squareFootage", 1000),
        Get(listing, "propertyType", "Single Family"),
        GetOr(listing, "bedrooms", 3),
        GetOr(listing, "bathrooms", 2))

\* listing.get("latitude"), listing.get("longitude"): a coordinate the listing lacks
\* is None, an argument not given
CoordinatesOf(listing) ==
    [k \in {"latitude", "longitude"} \cap DOMAIN listing |-> listing[k]]

\* as SoldArgs, with the square-footage window 200 either side of the subject
SoldArgsSymmetric(listing) ==
    LET analysis == SubjectOf(listing)
    IN  CoordinatesOf(listing) @@
        [bedrooms_min |-> analysis.bedrooms, bedrooms_max |-> BedroomsMax,
         bathrooms_min |-> analysis.bathrooms, bathrooms_max |-> BathroomsMax,
         sqft_min |-> analysis.square_footage - SqftBelow,
         sqft_max |-> analysis.square_footage + SqftBelow,
         property_type |-> SoldTypeParam(listing)]

\* the keyword arguments of the get_sold_properties call of _analyze_property
SoldArgs(listing) ==
    LET analysis == SubjectOf(listing)
    IN  CoordinatesOf(listing) @@
        [bedrooms_min |-> analysis.bedrooms, bedrooms_max |-> BedroomsMax,
         bathrooms_min |-> analysis.bathrooms, bathrooms_max |-> BathroomsMax,
         sqft_min |-> analysis.square_footage - SqftBelow,
         sqft_max |-> analysis.square_footage + SqftAbove,
         property_type |-> SoldTypeParam(listing)]

\* the log entry of the sold-property search for the listing at position idx
SoldCall(idx, listing, resp) ==
    [kind |-> "sold", idx |-> idx, property_type |-> SoldTypeParam(listing), resp |-> resp,
     args |-> SoldArgs(listing), params |-> GetSoldPropertiesParams(SoldArgs(listing))]

-----------------------------------------------------------------------------
(* generate_report                                                         *)

Init ==
    /\ \E run \in Runs : self = run.self /\ zip_codes = run.zip_codes
    /\ property_types \in PropertyTypeChoices
    /\ calls = <<>>
    /\ pc = "phase1"
    /\ all_listings = <<>>
    /\ distinct_zip_codes = {}
    /\ zi = 0
    /\ all_analyses = <<>>
    /\ listing_calls = 0
    /\ sold_calls = 0
    /\ unit_op = "none"
    /\ unit_in = <<>>
    /\ unit_out = <<>>


\* as FetchOk, with one listing search for each property type
FetchOkPerType ==
    /\ pc = "phase1"
    /\ zi < Len(zip_codes)
    /\ LET zip_code == zip_codes[zi + 1].zip_code
           searches == IF property_types = <<>> THEN 1 ELSE Len(property_types)
       IN  /\ distinct_zip_codes' = distinct_zip_codes \cup {zip_code}
           /\ \E listings \in ListingResponses(zip_code) :
                 /\ all_listings' = all_listings \o SortListingsByPrice(listings)
                 /\ calls' = calls \o [t \in 1..searches |->
                                          ListingCall(zip_code, TRUE, Len(listings))]
           /\ listing_calls' = listing_calls + searches
    /\ zi' = zi + 1
    /\ pc' = IF zi + 1 = Len(zip_codes) THEN "budget" ELSE "phase1"
    /\ UNCHANGED <<self, property_types, zip_codes, all_analyses, sold_calls>>
    /\ UNCHANGED unitVars

\* one iteration of the Phase 1 loop whose listing search succeeds
FetchOk ==
    /\ pc = "phase1"
    /\ zi < Len(zip_codes)
    /\ LET zip_code == zip_codes[zi + 1].zip_code
       IN  /\ distinct_zip_codes' = distinct_zip_codes \cup {zip_code}
           /\ \E listings \in ListingResponses(zip_code) :
                 /\ all_listings' = all_listings \o SortListingsByPrice(listings)
                 /\ calls' = Append(calls, ListingCall(zip_code, TRUE, Len(listings)))
    /\ listing_calls' = listing_calls + 1
    /\ zi' = zi + 1
    /\ pc' = IF zi + 1 = Len(zip_codes) THEN "budget" ELSE "phase1"
    /\ UNCHANGED <<self, property_types, zip_codes, all_analyses, sold_calls>>
    /\ UNCHANGED unitVars

\* as FetchFail, with the zip code recorded only once its fetch has succeeded
FetchFailUncounted ==
    /\ pc = "phase1"
    /\ zi < Len(zip_codes)
    /\ listing_calls' = listing_calls + 1
    /\ calls' = Append(calls, ListingCall(zip_codes[zi + 1].zip_code, FALSE, 0))
    /\ zi' = zi + 1
    /\ pc' = IF zi + 1 = Len(zip_codes) THEN "budget" ELSE "phase1"
    /\ UNCHANGED <<self, property_types, zip_codes, all_listings, distinct_zip_codes, all_analyses, sold_calls>>
    /\ UNCHANGED unitVars


\* as FetchFail, with the zip-code loop abandoned at the first failed search
FetchFailBreak ==
    /\ pc = "phase1"
    /\ zi < Len(zip_codes)
    /\ distinct_zip_codes' = distinct_zip_codes \cup {zip_codes[zi + 1].zip_code}
    /\ listing_calls' = listing_calls + 1
    /\ calls' = Append(calls, ListingCall(zip_codes[zi + 1].zip_code, FALSE, 0))
    /\ zi' = zi + 1
    /\ pc' = "budget"
    /\ UNCHANGED <<self, property_types, zip_codes, all_listings, all_analyses, sold_calls>>
    /\ UNCHANGED unitVars

\* one iteration of the Phase 1 loop whose listing search raises RentcastAPIError
FetchFail ==
    /\ pc = "phase1"
    /\ zi < Len(zip_codes)
    /\ distinct_zip_codes' = distinct_zip_codes \cup {zip_codes[zi + 1].zip_code}
    /\ listing_calls' = listing_calls + 1
    /\ calls' = Append(calls, ListingCall(zip_codes[zi + 1].zip_code, FALSE, 0))
    /\ zi' = zi + 1
    /\ pc' = IF zi + 1 = Len(zip_codes) THEN "budget" ELSE "phase1"
    /\ UNCHANGED <<self, property_types, zip_codes, all_listings, all_analyses, sold_calls>>
    /\ UNCHANGED unitVars

\* the budget check fails: raise SystemExit
BudgetAbort ==
    /\ pc = "budget"
    /\ BudgetExceeded
    /\ pc' = "exit"
    /\ UNCHANGED <<self, property_types, zip_codes, all_listings, distinct_zip_codes, zi, all_analyses,
                   listing_calls, sold_calls, calls>>
    /\ UNCHANGED unitVars

\* the budget check passes
BudgetPass ==
    /\ pc = "budget"
    /\ ~BudgetExceeded
    /\ pc' = "phase3"
    /\ UNCHANGED <<self, property_types, zip_codes, all_listings, distinct_zip_codes, zi, all_analyses,
                   listing_calls, sold_calls, calls>>
    /\ UNCHANGED unitVars

\* as AnalyzeNext, with a RentcastAPIError of the sold-property search not caught
AnalyzeNextPropagating ==
    /\ pc = "phase3"
    /\ Len(all_analyses) < Len(all_listings)
    /\ LET listing == all_listings[Len(all_analyses) + 1]
       IN  IF HasCoordinates(listing)
           THEN /\ \E resp \in PipelineSoldResponses :
                      /\ all_analyses' = IF resp.ok
                            THEN Append(all_analyses, AnalyzeProperty(listing, resp))
                            ELSE all_analyses
                      /\ pc' = IF resp.ok THEN pc ELSE "exit"
                      /\ calls' = Append(calls, SoldCall(Len(all_analyses) + 1, listing, resp))
                /\ sold_calls' = sold_calls + 1
           ELSE /\ all_analyses' = Append(all_analyses, AnalyzeProperty(listing, NoResponse))
                /\ sold_calls' = sold_calls
                /\ pc' = pc
                /\ calls' = calls
    /\ UNCHANGED <<self, property_types, zip_codes, all_listings, distinct_zip_codes, zi, listing_calls>>
    /\ UNCHANGED unitVars

\* one iteration of the analysis loop
AnalyzeNext ==
    /\ pc = "phase3"
    /\ Len(all_analyses) < Len(all_listings)
    /\ LET listing == all_listings[Len(all_analyses) + 1]
       IN  IF HasCoordinates(listing)
           THEN /\ \E resp \in PipelineSoldResponses :
                      /\ all_analyses' = Append(all_analyses, AnalyzeProperty(listing, resp))
                      /\ calls' = Append(calls, SoldCall(Len(all_analyses) + 1, listing, resp))
                /\ sold_calls' = sold_calls + 1
           ELSE /\ all_analyses' = Append(all_analyses, AnalyzeProperty(listing, NoResponse))
                /\ sold_calls' = sold_calls
                /\ calls' = calls
    /\ UNCHANGED <<self, property_types, pc, zip_codes, all_listings, distinct_zip_codes, zi, listing_calls>>
    /\ UNCHANGED unitVars

\* the final sort and the return
ReturnSorted ==
    /\ pc = "phase3"
    /\ Len(all_analyses) = Len(all_listings)
    /\ all_analyses' = SortAnalysesByProfitDesc(all_analyses)
    /\ pc' = "done"
    /\ UNCHANGED <<self, property_types, zip_codes, all_listings, distinct_zip_codes, zi,
                   listing_calls, sold_calls, calls>>
    /\ UNCHANGED unitVars

Next ==
    \/ FetchOk
    \/ FetchFail
    \/ BudgetAbort
    \/ BudgetPass
    \/ AnalyzeNext
    \/ ReturnSorted

Spec == Init /\ [][Next]_vars

-----------------------------------------------------------------------------
(* The functions of ReportGenerator applied to enumerated arguments: each  *)
(* behaviour constructs a generator and calls one method once.             *)

UnitConfigs ==
    { DefaultConfig,
      [DefaultConfig EXCEPT !.build_up_cost_per_sqft = 0, !.financing_rate = 0,
                            !.upside_threshold = 0],
      [DefaultConfig EXCEPT !.build_up_cost_per_sqft = Cents(100), !.financing_rate = 100],
      [DefaultConfig EXCEPT !.upside_threshold = Cents(52000),
                            !.comp_price_threshold = Cents(360000)],
      [DefaultConfig EXCEPT !.upside_threshold = -Cents(10000)] }

UnitOffers == {0, Cents(100000), Cents(200000)}
UnitSqfts == {0, 1000, 1234}

UnitListings ==
    { [formattedAddress |-> "a1", zipCode |-> "z1", price |-> Cents(200000),
       squareFootage |-> 1000, latitude |-> 1, longitude |-> 1],
      [formattedAddress |-> "a2", zipCode |-> "z1", price |-> Cents(100000),
       latitude |-> 1, longitude |-> 1],
      [formattedAddress |-> "a3", zipCode |-> "z1", price |-> Cents(200000),
       squareFootage |-> 1000, longitude |-> 1],
      [formattedAddress |-> "a4", zipCode |-> "z2", squareFootage |-> 0,
       latitude |-> 1, longitude |-> 1] }

UnitSoldPool ==
    { [formattedAddress |-> "s0"],
      [formattedAddress |-> "s1", lastSalePrice |-> Cents(300000) - 1],
      [formattedAddress |-> "s2", lastSalePrice |-> Cents(300000)],
      [formattedAddress |-> "s3", lastSalePrice |-> Cents(310000)],
      [formattedAddress |-> "s4", lastSalePrice |-> Cents(338000)],
      [formattedAddress |-> "s5", lastSalePrice |-> Cents(338000) + 1],
      [formattedAddress |-> "s6", lastSalePrice |-> Cents(360000)],
      [formattedAddress |-> "s7", lastSalePrice |-> Cents(500000)],
      [formattedAddress |-> "s8", lastSalePrice |-> Cents(500000) + 1] }

\* listings with coordinates that differ in square footage, bedrooms and bathrooms
UnitAttrListings ==
    { [formattedAddress |-> "b1", zipCode |-> "z1", price |-> Cents(200000),
       squareFootage |-> 100, bedrooms |-> 6, bathrooms |-> 5,
       latitude |-> 1, longitude |-> 1],
      [formattedAddress |-> "b2", zipCode |-> "z1", price |-> Cents(200000),
       squareFootage |-> 0, bedrooms |-> 0, bathrooms |-> 0,
       latitude |-> 1, longitude |-> 1],
      [formattedAddress |-> "b3", zipCode |-> "z1", price |-> Cents(200000),
       squareFootage |-> 1400, bedrooms |-> 2, bathrooms |-> 1,
       latitude |-> 1, longitude |-> 1],
      [formattedAddress |-> "b4", zipCode |-> "z1", price |-> Cents(200000),
       squareFootage |-> 0, bedrooms |-> 0] }

\* the sold-property outcomes offered for them: nothing, an error, one comparable
UnitAttrResponses ==
    { NoResponse,
      [ok |-> FALSE, error |-> "Network error: timed out"],
      [ok |-> TRUE,
       body |-> <<[formattedAddress |-> "s6", lastSalePrice |-> Cents(360000)]>>] }

\* bodies around the display limit: n sold properties "c1".."cn", all within the band
\* of a 200000 listing, returned from the dearest to the cheapest
BulkSoldAddress == <<"c1", "c2", "c3", "c4", "c5", "c6", "c7", "c8">>
BulkSoldSizes == {DisplayLimit - 1, DisplayLimit, DisplayLimit + 1}
BulkSold(n) ==
    [i \in 1..n |-> [formattedAddress |-> BulkSoldAddress[i],
                     lastSalePrice |-> Cents(300000 + 1000 * (n + 1 - i))]]
BulkSoldResponses == {[ok |-> TRUE, body |-> BulkSold(n)] : n \in BulkSoldSizes}

UnitResponsesFor(listing) ==
    IF ~HasCoordinates(listing) THEN {NoResponse}
    ELSE IF listing \in UnitAttrListings THEN UnitAttrResponses
    ELSE SoldResponses(UnitSoldPool, ProviderErrors) \cup BulkSoldResponses

\* a keyword argument that is None or one of the values
Optional(k, values) == {NoParams} \cup {k :> v : v \in values}

UnitSaleListingsArgs ==
    {("zip_code" :> "z1") @@ pt @@ p1 @@ p2 @@ s1 @@ s2 :
        pt \in Optional("property_type", {Join(",", <<"Single Family", "Townhouse">>)}),
        p1 \in Optional("min_price", {Cents(100000), Cents(100000) + 99}),
        p2 \in Optional("max_price", {Cents(200000)}),
        s1 \in Optional("min_sqft", {800}),
        s2 \in Optional("max_sqft", {1400})}

UnitSoldPropertiesArgs ==
    {("latitude" :> 1) @@ ("longitude" :> 1) @@ b1 @@ b2 @@ t1 @@ t2 @@ s1 @@ s2 :
        b1 \in Optional("bedrooms_min", {3}), b2 \in Optional("bedrooms_max", {5}),
        t1 \in Optional("bathrooms_min", {2}), t2 \in Optional("bathrooms_max", {4}),
        s1 \in Optional("sqft_min", {800}), s2 \in Optional("sqft_max", {1400})}

\* main(): the attributes of FilterConfig, those main reads from config.filters
\* before it builds the generator, the parameters of generate_report, and the keyword
\* arguments main calls it with
FilterConfigFields == {"zip_codes", "property_types", "status", "limit"}
MainFilterReads ==
    {"zip_codes", "property_types", "min_price", "max_price", "min_sqft", "max_sqft"}
GenerateReportParams == {"zip_codes", "property_types", "status", "limit"}
MainReportKwargs ==
    {"zip_codes", "property_types", "min_price", "max_price", "min_sqft", "max_sqft",
     "status", "limit"}

\* the keyword arguments of main's ReportGenerator(...) that the model keeps
MainGeneratorKwargs(config) ==
    [build_up_cost_per_sqft |-> config.costs.build_up_cost_per_sqft,
     financing_rate |-> config.costs.financing_rate,
     upside_threshold |-> config.decision.upside_threshold]

\* ReportGenerator.__init__: the arguments given, the defaults for the others
NewReportGenerator(kwargs) == kwargs @@ DefaultConfig

\* main() on a loaded configuration.  Reading an attribute FilterConfig does not have
\* raises AttributeError, calling generate_report with a keyword it does not have
\* raises TypeError; "except Exception" turns both into the exit code 99.
Main(config) ==
    IF ~(MainFilterReads \subseteq FilterConfigFields)
    THEN [exit_code |-> 99, constructed |-> FALSE, ran |-> FALSE]
    ELSE LET generator == NewReportGenerator(MainGeneratorKwargs(config))
         IN  IF ~(MainReportKwargs \subseteq GenerateReportParams)
             THEN [exit_code |-> 99, constructed |-> TRUE, generator |-> generator,
                   ran |-> FALSE]
             ELSE [exit_code |-> 0, constructed |-> TRUE, generator |-> generator,
                   ran |-> TRUE]

\* configurations as get_app_config returns them
UnitAppConfigs ==
    {[rentcast |-> [max_api_calls |-> m],
      costs |-> [build_up_cost_per_sqft |-> Cents(75), financing_rate |-> 12],
      decision |-> [upside_threshold |-> Cents(30000), comp_price_threshold |-> c]] :
        m \in {20, 50}, c \in {Cents(400000), Cents(500000)}}

UnitInit ==
    /\ self \in UnitConfigs
    /\ pc = "unit"
    /\ zip_codes = <<>>
    /\ all_listings = <<>>
    /\ distinct_zip_codes = {}
    /\ zi = 0
    /\ all_analyses = <<>>
    /\ listing_calls = 0
    /\ sold_calls = 0
    /\ property_types = <<>>
    /\ calls = <<>>
    /\ unit_op = "none"
    /\ unit_in = <<>>
    /\ unit_out = <<>>

CallCalculateCosts ==
    /\ unit_op = "none"
    /\ \E best_offer_price \in UnitOffers, square_footage \in UnitSqfts :
          /\ unit_in' = <<best_offer_price, square_footage>>
          /\ unit_out' = CalculateCosts(best_offer_price, square_footage)
    /\ unit_op' = "calculate_costs"
    /\ UNCHANGED self
    /\ UNCHANGED pipeVars

CallFilterAndAnalyzeComps ==
    /\ unit_op = "none"
    /\ \E sold_properties \in InjSeqsUpTo(UnitSoldPool, MaxSold)
                                \cup {BulkSold(n) : n \in BulkSoldSizes},
          subject_list_price \in UnitOffers :
          /\ unit_in' = <<sold_properties, subject_list_price, 1000>>
          /\ unit_out' = FilterAndAnalyzeComps(sold_properties, subject_list_price, 1000)
    /\ unit_op' = "filter_and_analyze_comps"
    /\ UNCHANGED self
    /\ UNCHANGED pipeVars

CallAnalyzeProperty ==
    /\ unit_op = "none"
    /\ \E listing \in UnitListings \cup UnitAttrListings :
          \E resp \in UnitResponsesFor(listing) :
             /\ unit_in' = <<listing, resp>>
             /\ unit_out' = AnalyzeProperty(listing, resp)
             /\ calls' = IF HasCoordinates(listing) THEN <<SoldCall(1, listing, resp)>>
                         ELSE <<>>
    /\ unit_op' = "analyze_property"
    /\ UNCHANGED <<self, pc, zip_codes, all_listings, distinct_zip_codes, zi,
                   all_analyses, listing_calls, sold_calls, property_types>>

\* one call of get_sale_listings: the query it sends
CallGetSaleListings ==
    /\ unit_op = "none"
    /\ \E args \in UnitSaleListingsArgs :
          /\ unit_in' = <<args>>
          /\ unit_out' = GetSaleListingsParams(args)
    /\ unit_op' = "get_sale_listings"
    /\ UNCHANGED self
    /\ UNCHANGED pipeVars

\* one call of get_sold_properties: the query it sends
CallGetSoldProperties ==
    /\ unit_op = "none"
    /\ \E args \in UnitSoldPropertiesArgs :
          /\ unit_in' = <<args>>
          /\ unit_out' = GetSoldPropertiesParams(args)
    /\ unit_op' = "get_sold_properties"
    /\ UNCHANGED self
    /\ UNCHANGED pipeVars

\* one run of main
CallMain ==
    /\ unit_op = "none"
    /\ \E config \in UnitAppConfigs :
          /\ unit_in' = <<config>>
          /\ unit_out' = Main(config)
    /\ unit_op' = "main"
    /\ UNCHANGED self
    /\ UNCHANGED pipeVars

UnitNext ==
    \/ CallCalculateCosts
    \/ CallFilterAndAnalyzeComps
    \/ CallAnalyzeProperty
    \/ CallGetSaleListings
    \/ CallGetSoldProperties
    \/ CallMain

UnitSpec == UnitInit /\ [][UnitNext]_vars

-----------------------------------------------------------------------------
(* Properties of generate_report (specification Spec)                      *)

\* C1: Budget gate ordering.  A listing search is issued only in Phase 1,
\* before the budget check; a sold-property search is issued only in the
\* analysis phase, which is entered only from a budget check that passed;
\* a budget check whose estimate exceeds max_api_calls ends the run in the
\* fatal exit with no sold-property call, no analysis and no list returned,
\* and the exit is final.
C1_BudgetGateOrdering ==
    [][ /\ listing_calls' # listing_calls => pc = "phase1" /\ pc' \in {"phase1", "budget"}
        /\ sold_calls' # sold_calls => pc = "phase3"
        /\ all_analyses' # all_analyses => pc = "phase3"
        /\ (pc' = "phase3" /\ pc # "phase3") =>
              (pc = "budget" /\ TotalApiCalls <= self.max_api_calls)
        /\ (pc = "budget" /\ TotalApiCalls > self.max_api_calls) =>
              (pc' = "exit" /\ sold_calls' = 0 /\ all_analyses' = <<>>)
        /\ pc = "exit" => pc' = "exit"
      ]_vars

C1_Witness ==
    /\ pc = "exit"
    /\ listing_calls = Len(zip_codes)
    /\ Len(all_listings) > 0
    /\ sold_calls = 0
    /\ all_analyses = <<>>

\* C2: Budget boundary.  From the budget check, an estimate equal to
\* max_api_calls (or below) proceeds to the analysis, and an estimate of
\* max_api_calls + 1 (or above) aborts with nothing analysed; a returned
\* list is only ever returned with an estimate of at most max_api_calls.
C2_BudgetBoundary ==
    [][ /\ (pc = "budget" /\ TotalApiCalls = self.max_api_calls) => pc' = "phase3"
        /\ (pc = "budget" /\ TotalApiCalls < self.max_api_calls) => pc' = "phase3"
        /\ (pc = "budget" /\ TotalApiCalls = self.max_api_calls + 1) =>
              (pc' = "exit" /\ all_analyses' = <<>>)
        /\ pc' = "done" => TotalApiCalls' <= self.max_api_calls
      ]_vars

\* the run that aborts one above the ceiling
C2_WitnessAbort ==
    /\ pc = "exit"
    /\ TotalApiCalls = self.max_api_calls + 1

C2_Witness ==
    /\ pc = "done"
    /\ TotalApiCalls = self.max_api_calls
    /\ Len(all_analyses) = Len(all_listings)
    /\ Len(all_analyses) > 0

\* C3: Budget estimate formula.  Once Phase 1 is over, the estimate that is
\* compared with max_api_calls is the number of distinct zip codes among the
\* zip entries (those whose fetch failed included) plus the number of
\* listings collected; the run is aborted exactly when that sum exceeds
\* max_api_calls.  Three zips returning 10, 5 and 8 listings under
\* max_api_calls = 20 abort with nothing analysed.
ScenarioZips == <<[zip_code |-> "b10"], [zip_code |-> "b5"], [zip_code |-> "b8"]>>

C3_BudgetEstimate ==
    LET estimate == Cardinality({zip_codes[i].zip_code : i \in 1..Len(zip_codes)})
                        + Len(all_listings)
    IN  /\ pc # "phase1" => TotalApiCalls = estimate
        /\ pc = "exit" => estimate > self.max_api_calls
        /\ pc \in {"phase3", "done"} => estimate <= self.max_api_calls
        /\ (zip_codes = ScenarioZips /\ Len(all_listings) = 23 /\ pc \notin {"phase1", "budget"})
              => (estimate = 26 /\ self.max_api_calls = 20 /\ pc = "exit" /\ all_analyses = <<>>)

C3_Witness ==
    /\ zip_codes = ScenarioZips
    /\ Len(all_listings) = 23
    /\ TotalApiCalls = 26
    /\ pc = "exit"

\* some zip entry's fetch failed and the estimate still counts its zip code
C3_WitnessFailedZip ==
    /\ pc = "phase3"
    /\ all_listings = <<>>
    /\ TotalApiCalls = 2

\* C4: Error-record invariant.  Every PropertyAnalysis built by
\* _analyze_property, while collected and in the returned list, that has an
\* error_message has best_offer_price, build_up_cost, financing_cost,
\* all_inclusive_cost, upside_value and upside_profit 0, both comparables
\* lists empty and decision "No".
ErrorRecordClean(a) ==
    a.error_message # None =>
        /\ a.best_offer_price = 0
        /\ a.build_up_cost = 0
        /\ a.financing_cost = 0
        /\ a.all_inclusive_cost = 0
        /\ a.upside_value = 0
        /\ a.upside_profit = 0
        /\ a.best_offer_comparables = <<>>
        /\ a.upside_comparables = <<>>
        /\ a.decision = "No"

C4_ErrorRecordInvariant ==
    \A i \in 1..Len(all_analyses) : ErrorRecordClean(all_analyses[i])

C4_Witness ==
    /\ pc = "done"
    /\ \E i \in 1..Len(all_analyses) :
          all_analyses[i].error_message = "No valid comparable properties after filtering"
    /\ \E i \in 1..Len(all_analyses) :
          all_analyses[i].error_message \in ProviderErrors
    /\ \E i \in 1..Len(all_analyses) :
          all_analyses[i].error_message = None /\ all_analyses[i].upside_value > 0

\* C5: Per-listing failure independence.  The only fatal end of a run is the
\* budget abort; a run that passed the budget check stays in the analysis
\* until it returns, whatever listings fail, and the returned list holds
\* exactly one PropertyAnalysis per collected listing.
ListingKey(l) == <<Get(l, "formattedAddress", ""), Get(l, "zipCode", ""), Get(l, "price", 0)>>
AnalysisKey(a) == <<a.address, a.zip_code, a.list_price>>

OnePerListing ==
    /\ Len(all_analyses) = Len(all_listings)
    /\ \A i \in 1..Len(all_listings) :
          Cardinality({j \in 1..Len(all_analyses) :
                          AnalysisKey(all_analyses[j]) = ListingKey(all_listings[i])})
            = Cardinality({j \in 1..Len(all_listings) :
                          ListingKey(all_listings[j]) = ListingKey(all_listings[i])})

C5_FailureIndependence ==
    /\ pc = "done" => OnePerListing
    /\ pc = "phase3" =>
          /\ Len(all_analyses) <= Len(all_listings)
          /\ \A i \in 1..Len(all_analyses) :
                AnalysisKey(all_analyses[i]) = ListingKey(all_listings[i])
    /\ pc = "exit" => (TotalApiCalls > self.max_api_calls /\ all_analyses = <<>>)

C5_Witness ==
    /\ pc = "done"
    /\ Len(all_analyses) = 3
    /\ \E i \in 1..3 : all_analyses[i].error_message = "No coordinates available for property"
    /\ \E i \in 1..3 : all_analyses[i].error_message \in ProviderErrors
    /\ \E i \in 1..3 : all_analyses[i].error_message = None

\* ---------------------------------------------------------------------------
\* the provider calls spent

\* C25: a run that returns a list has issued at most max_api_calls provider calls,
\* listing searches and sold-property searches together, for any list of zip entries.
C25_SpendWithinCeiling ==
    pc = "done" => Len(calls) <= self.max_api_calls

-----------------------------------------------------------------------------
(* Properties of the functions (specification UnitSpec)                    *)

\* the price band of the comparable filter, on a sold property
InBand(prop, list_price) ==
    /\ "lastSalePrice" \in DOMAIN prop
    /\ prop.lastSalePrice # 0
    /\ 2 * prop.lastSalePrice >= 3 * list_price
    /\ prop.lastSalePrice <= self.comp_price_threshold

SurvivorPrices(sold, list_price) ==
    {sold[i].lastSalePrice : i \in {j \in 1..Len(sold) : InBand(sold[j], list_price)}}

MaxOf(S) == CHOOSE m \in S : \A x \in S : x <= m
MinOf(S) == CHOOSE m \in S : \A x \in S : m <= x

C7_DecisionRule ==
    (unit_op = "analyze_property" /\ unit_out.error_message = None) =>
        /\ unit_out.decision = "Yes" <=> unit_out.upside_profit > self.upside_threshold
        /\ unit_out.decision \in {"Yes", "No"}
        /\ unit_out.upside_profit = self.upside_threshold => unit_out.decision = "No"
        /\ unit_out.upside_profit = self.upside_threshold + 1 => unit_out.decision = "Yes"

C7_Witness ==
    /\ unit_op = "analyze_property"
    /\ unit_out.error_message = None
    /\ unit_out.upside_profit = self.upside_threshold
    /\ unit_out.decision = "No"

\* the profit one cent above the threshold
C7_WitnessAbove ==
    /\ unit_op = "analyze_property"
    /\ unit_out.error_message = None
    /\ unit_out.upside_profit = self.upside_threshold + 1
    /\ unit_out.decision = "Yes"

\* C8: Upside uses the maximum comparable.  A scored listing has
\* upside_value equal to the greatest surviving comparable price and
\* upside_profit = upside_value - all_inclusive_cost; replacing one sold
\* property of the response by another that leaves the greatest surviving
\* price unchanged leaves upside_value, upside_profit and decision unchanged.
UpsideOf(a) == <<a.upside_value, a.upside_profit, a.decision>>

C9_CostFormulas ==
    unit_op = "calculate_costs" =>
        LET offer_price == unit_in[1]
            square_footage == unit_in[2]
            build_up == unit_out[1]
            financing == unit_out[2]
            all_inclusive == unit_out[3]
        IN  /\ build_up = self.build_up_cost_per_sqft * square_footage
            /\ (offer_price + build_up) % 100 = 0
            /\ financing = self.financing_rate * ((offer_price + build_up) \div 100)
            /\ all_inclusive = offer_price + build_up + financing

C9_Witness ==
    /\ unit_op = "calculate_costs"
    /\ unit_in = <<Cents(100000), 1234>>
    /\ self.financing_rate = 100
    /\ self.build_up_cost_per_sqft = Cents(100)
    /\ unit_out = <<Cents(123400), Cents(223400), Cents(446800)>>

\* C10: End-to-end scoring scenario.  list_price 200000, square_footage
\* 1000, cost_per_sqft 75, financing_rate 0.12, upside_threshold 30000 and
\* surviving comparables from 310000 up to 360000 give build_up_cost 75000,
\* financing_cost 33000, all_inclusive_cost 308000, upside_value 360000,
\* upside_profit 52000, decision "Yes" and no error_message.
ScenarioCase ==
    /\ unit_op = "analyze_property"
    /\ self.build_up_cost_per_sqft = Cents(75)
    /\ self.financing_rate = 12
    /\ self.upside_threshold = Cents(30000)
    /\ HasCoordinates(unit_in[1])
    /\ Get(unit_in[1], "price", 0) = Cents(200000)
    /\ Get(unit_in[1], "squareFootage", 0) = 1000
    /\ unit_in[2].ok
    /\ LET prices == SurvivorPrices(unit_in[2].body, Cents(200000))
       IN  prices # {} /\ MinOf(prices) = Cents(310000) /\ MaxOf(prices) = Cents(360000)

NonIncreasingProfit(s) ==
    \A i \in 1..(Len(s) - 1) : s[i].upside_profit >= s[i + 1].upside_profit

Occurrences(s, x) == Cardinality({i \in 1..Len(s) : s[i] = x})

IsPermutation(s, t) ==
    /\ Len(s) = Len(t)
    /\ \A i \in 1..Len(s) : Occurrences(s, s[i]) = Occurrences(t, s[i])

\* the sort moved at least one record away from the position of its listing
SortMoved ==
    \E i \in 1..Len(all_analyses) :
        AnalysisKey(all_analyses[i]) # ListingKey(all_listings[i])

\* C11: the list generate_report returns is in non-increasing order of upside_profit
\* and is a permutation of the records the analysis loop produced.
C11_SortedOutput ==
    [][pc' = "done" =>
          /\ NonIncreasingProfit(all_analyses')
          /\ IsPermutation(all_analyses, all_analyses')]_vars

C11_Witness ==
    /\ pc = "done"
    /\ Len(all_analyses) >= 3
    /\ \E i, j \in 1..Len(all_analyses) :
          all_analyses[i].upside_profit > all_analyses[j].upside_profit
    /\ SortMoved

WithProfit(s, p) ==
    LET HasProfit(a) == a.upside_profit = p
    IN  SelectSeq(s, HasProfit)

\* C12: the final sort is stable: the records of any one upside_profit value are in the
\* returned list in the order the analysis loop produced them.
C12_SortStability ==
    [][pc' = "done" =>
          \A i \in 1..Len(all_analyses) :
              WithProfit(all_analyses', all_analyses[i].upside_profit)
                  = WithProfit(all_analyses, all_analyses[i].upside_profit)]_vars

C12_Witness ==
    /\ pc = "done"
    /\ SortMoved
    /\ \E i, j \in 1..Len(all_analyses) :
          /\ i < j
          /\ all_analyses[i].upside_profit = all_analyses[j].upside_profit
          /\ all_analyses[i] # all_analyses[j]

\* ---------------------------------------------------------------------------
\* one step of the analysis loop

\* the analysis loop has just handled the listing at position i
Analyzed(i) ==
    /\ pc = "phase3"
    /\ i = Len(all_analyses) + 1
    /\ Len(all_analyses') = i

CoordinateMissing(listing) ==
    ~("latitude" \in DOMAIN listing) \/ ~("longitude" \in DOMAIN listing)

\* C13: a listing with its latitude or its longitude missing gets an Errored record
\* with the coordinates-missing message, all numeric fields 0 and decision "No"; no
\* sold-property search is made for it, and the analysis loop goes on.
C13_MissingCoordinates ==
    [][\A i \in 1..Len(all_listings) :
          (Analyzed(i) /\ CoordinateMissing(all_listings[i])) =>
              /\ all_analyses'[i].error_message = "No coordinates available for property"
              /\ AnalysisKey(all_analyses'[i]) = ListingKey(all_listings[i])
              /\ ErrorRecordClean(all_analyses'[i])
              /\ sold_calls' = sold_calls
              /\ calls' = calls
              /\ pc' = "phase3"]_vars

C13_Witness ==
    /\ pc = "phase3"
    /\ \E i \in 1..(Len(all_analyses) - 1) :
          /\ "latitude" \in DOMAIN all_listings[i]
          /\ ~("longitude" \in DOMAIN all_listings[i])
          /\ all_analyses[i].error_message = "No coordinates available for property"
          /\ all_analyses[i + 1].error_message = None
          /\ all_analyses[i + 1].upside_profit > 0
    /\ sold_calls = 1

\* the analysis loop has just handled the listing at position i with a sold-property
\* search, whose log entry is the last of calls'
AnalyzedWithSearch(i) ==
    /\ Analyzed(i)
    /\ Len(calls') = Len(calls) + 1
    /\ calls'[Len(calls')].kind = "sold"
    /\ calls'[Len(calls')].idx = i

LastResponse == calls'[Len(calls')].resp

\* C14: when the sold-property search of a listing fails with a provider error, the
\* listing's record is Errored with the error's message verbatim as error_message, the
\* record is appended, and the error does not leave the analysis of that listing.
C14_ProviderErrorIsolated ==
    [][\A i \in 1..Len(all_listings) :
          (AnalyzedWithSearch(i) /\ ~LastResponse.ok) =>
              /\ all_analyses'[i].error_message = LastResponse.error
              /\ AnalysisKey(all_analyses'[i]) = ListingKey(all_listings[i])
              /\ ErrorRecordClean(all_analyses'[i])
              /\ SubSeq(all_analyses', 1, i - 1) = all_analyses
              /\ pc' = "phase3"]_vars

C14_Witness ==
    /\ pc = "phase3"
    /\ \E k \in 1..Len(calls) :
          /\ calls[k].kind = "sold"
          /\ ~calls[k].resp.ok
          /\ calls[k].idx < Len(all_analyses)
          /\ all_analyses[calls[k].idx].error_message = calls[k].resp.error
          /\ all_analyses[calls[k].idx + 1].error_message = None

NoneInBand(body, list_price) ==
    \A k \in 1..Len(body) : ~InBand(body[k], list_price)

\* C15: a sold-property search that returns nothing gives the no-comparables message; one
\* that returns properties of which none passes the filter gives the different
\* after-filtering message.  Either way the record is present with upside_profit 0 and
\* the analysis loop goes on.
C15_NoComparables ==
    [][\A i \in 1..Len(all_listings) :
          (AnalyzedWithSearch(i) /\ LastResponse.ok
              /\ NoneInBand(LastResponse.body, Get(all_listings[i], "price", 0))) =>
              /\ all_analyses'[i].error_message =
                    IF LastResponse.body = <<>>
                    THEN "No comparable sold properties found"
                    ELSE "No valid comparable properties after filtering"
              /\ AnalysisKey(all_analyses'[i]) = ListingKey(all_listings[i])
              /\ all_analyses'[i].upside_profit = 0
              /\ SubSeq(all_analyses', 1, i - 1) = all_analyses
              /\ pc' = "phase3"]_vars

C15_Witness ==
    /\ pc = "phase3"
    /\ \E j, k \in 1..Len(calls) :
          /\ calls[j].kind = "sold" /\ calls[k].kind = "sold"
          /\ calls[j].resp.ok /\ calls[k].resp.ok
          /\ calls[j].resp.body = <<>>
          /\ calls[k].resp.body # <<>>
          /\ calls[j].idx < Len(all_analyses) /\ calls[k].idx < Len(all_analyses)
          /\ all_analyses[calls[j].idx].error_message = "No comparable sold properties found"
          /\ all_analyses[calls[k].idx].error_message
                = "No valid comparable properties after filtering"

\* ---------------------------------------------------------------------------
\* Phase 1

\* a listing search has just been made; its log entry is the last of calls'
Searched ==
    /\ Len(calls') = Len(calls) + 1
    /\ calls'[Len(calls')].kind = "listings"

LastSearch == calls'[Len(calls')]

\* C16: a failed listing search is local to its zip code: the zip code contributes no
\* listing, the error does not end the run, the following zip codes are still queried
\* in the configured order, and what they return is collected and analysed.
C16_FetchFailureLocal ==
    [][/\ Searched =>
            /\ LastSearch.zip_code = zip_codes[Len(calls')].zip_code
            /\ Len(all_listings') = Len(all_listings) + LastSearch.n
            /\ SubSeq(all_listings', 1, Len(all_listings)) = all_listings
            /\ \A k \in (Len(all_listings) + 1)..Len(all_listings') :
                  all_listings'[k].zipCode = LastSearch.zip_code
            /\ pc' = IF Len(calls') < Len(zip_codes) THEN "phase1" ELSE "budget"
       /\ (Searched /\ ~LastSearch.ok) => all_listings' = all_listings
       /\ pc' = "done" => Len(all_analyses') = Len(all_listings)]_vars

C16_Witness ==
    /\ pc = "done"
    /\ Len(zip_codes) = 2
    /\ zip_codes[1].zip_code # zip_codes[2].zip_code
    /\ ~calls[1].ok
    /\ calls[2].ok
    /\ calls[2].n = 2
    /\ Len(all_analyses) = 2
    /\ \A i \in 1..2 : all_analyses[i].zip_code = zip_codes[2].zip_code

\* ---------------------------------------------------------------------------
\* the provider calls of a run

CallsOfKind(kind) == {k \in 1..Len(calls) : calls[k].kind = kind}

SearchesFor(i) == {k \in CallsOfKind("sold") : calls[k].idx = i}

\* the listings the analysis loop has handled so far
Handled == IF pc = "done" THEN Len(all_listings) ELSE Len(all_analyses)

\* C17: every configured zip entry gets exactly one listing search, carrying all the
\* property types, and every collected listing with both coordinates gets exactly one
\* sold-property search, whether the calls succeed or fail; no other call is made.
C17_ExactlyOnceCalls ==
    /\ CallsOfKind("listings") = 1..zi
    /\ pc # "phase1" => zi = Len(zip_codes)
    /\ \A k \in 1..zi :
          /\ calls[k].zip_code = zip_codes[k].zip_code
          /\ calls[k].property_type = Join(",", property_types)
    /\ \A i \in 1..Len(all_listings) :
          Cardinality(SearchesFor(i)) =
              IF i <= Handled /\ ~CoordinateMissing(all_listings[i]) THEN 1 ELSE 0
    /\ \A k \in CallsOfKind("sold") : calls[k].idx \in 1..Len(all_listings)
    /\ listing_calls = Cardinality(CallsOfKind("listings"))
    /\ sold_calls = Cardinality(CallsOfKind("sold"))

C17_Witness ==
    /\ pc = "done"
    /\ Len(property_types) = 2
    /\ Len(zip_codes) = 2
    /\ zip_codes[1] = zip_codes[2]
    /\ listing_calls = 2
    /\ \E k \in 1..2 : ~calls[k].ok
    /\ Len(all_listings) = 2
    /\ \E i \in 1..2 : CoordinateMissing(all_listings[i])
    /\ sold_calls = 1
    /\ ~calls[3].resp.ok

\* the number of listings the first k listing searches returned
RECURSIVE Collected(_)
Collected(k) == IF k = 0 THEN 0 ELSE Collected(k - 1) + calls[k].n

\* C18: the listings are analysed, and their sold-property searches issued, in the
\* order Phase 1 assembled them: zip entries in the configured order, and the listings
\* of one zip entry in ascending order of list price.
C18_ProcessingOrder ==
    /\ Len(all_listings) = Collected(zi)
    /\ \A k \in 1..zi : \A j \in 1..calls[k].n :
          LET at == Collected(k - 1) + j
          IN  /\ all_listings[at].zipCode = zip_codes[k].zip_code
              /\ j < calls[k].n =>
                    Get(all_listings[at], "price", 0) <= Get(all_listings[at + 1], "price", 0)
    /\ pc = "phase3" =>
          \A i \in 1..Len(all_analyses) :
              AnalysisKey(all_analyses[i]) = ListingKey(all_listings[i])
    /\ \A j, k \in CallsOfKind("sold") : j < k => calls[j].idx < calls[k].idx

C18_Witness ==
    /\ pc = "phase3"
    /\ Len(zip_codes) = 2
    /\ calls[1].n = 1 /\ calls[2].n = 1
    /\ all_listings[1].zipCode # all_listings[2].zipCode
    /\ all_listings[1].price > all_listings[2].price
    /\ Len(all_analyses) = 2
    /\ Len(calls) = 4
    /\ calls[3].idx = 1 /\ calls[4].idx = 2

\* ---------------------------------------------------------------------------
\* the final order and the processing order

\* the records of another processing order: those at positions i and j exchanged
Swap(s, i, j) == [s EXCEPT ![i] = s[j], ![j] = s[i]]

ProfitsOf(s) == [k \in 1..Len(s) |-> s[k].upside_profit]

DistinctProfits(s) ==
    \A i, j \in 1..Len(s) : i # j => s[i].upside_profit # s[j].upside_profit

\* C19 as stated: any other processing order of the same records gives the same
\* returned sequence.
C19_OrderIndependent ==
    [][pc' = "done" =>
          \A i, j \in 1..Len(all_analyses) :
              SortAnalysesByProfitDesc(Swap(all_analyses, i, j)) = all_analyses']_vars

\* C19, amended: any other processing order of the same records gives the same
\* returned sequence of upside_profit values over the same records, and the very same
\* sequence when no two records have equal upside_profit; records of equal
\* upside_profit stay in processing order.
C19_OrderIndependentUpToTies ==
    [][pc' = "done" =>
          \A i, j \in 1..Len(all_analyses) :
              LET other == SortAnalysesByProfitDesc(Swap(all_analyses, i, j))
              IN  /\ ProfitsOf(other) = ProfitsOf(all_analyses')
                  /\ IsPermutation(other, all_analyses')
                  /\ DistinctProfits(all_analyses) => other = all_analyses']_vars

C19_Witness ==
    /\ pc = "done"
    /\ Len(all_analyses) = 3
    /\ DistinctProfits(all_analyses)
    /\ SortMoved

Errored(a) == a.error_message # None

\* C20: in the returned list every errored record comes after every record of positive
\* upside_profit and before every record of negative upside_profit.
C20_ErroredPosition ==
    pc = "done" =>
        \A i, j \in 1..Len(all_analyses) :
            Errored(all_analyses[i]) =>
                /\ all_analyses[i].upside_profit = 0
                /\ all_analyses[j].upside_profit > 0 => j < i
                /\ all_analyses[j].upside_profit < 0 => i < j

C20_Witness ==
    /\ pc = "done"
    /\ Len(all_analyses) = 3
    /\ all_analyses[1].upside_profit > 0
    /\ Errored(all_analyses[2])
    /\ all_analyses[3].upside_profit < 0
    /\ ~Errored(all_analyses[3])
    /\ SortMoved

\* ---------------------------------------------------------------------------
\* the scored record

Scored == unit_op = "analyze_property" /\ unit_out.error_message = None

AscendingByPrice(comps) ==
    \A i \in 1..(Len(comps) - 1) : comps[i].price <= comps[i + 1].price

\* C22: the survivors of the filter are sorted ascending by price, the first and the
\* last give the minimum and the maximum anchor, and each comparables list of a scored
\* record holds the first min(5, number of survivors) survivors in that order, each as
\* its address and its price.
C22_DisplayComparables ==
    /\ (unit_op = "filter_and_analyze_comps" /\ unit_out[3] # <<>>) =>
          LET survivors == unit_out[3]
              prices == SurvivorPrices(unit_in[1], unit_in[2])
          IN  /\ AscendingByPrice(survivors)
              /\ unit_out[1] = survivors[1].price
              /\ unit_out[2] = survivors[Len(survivors)].price
              /\ unit_out[1] = MinOf(prices)
              /\ unit_out[2] = MaxOf(prices)
    /\ Scored =>
          LET survivors == FilterAndAnalyzeComps(unit_in[2].body, unit_out.list_price,
                                                 unit_out.square_footage)[3]
              shown == IF Len(survivors) < 5 THEN Len(survivors) ELSE 5
          IN  /\ AscendingByPrice(survivors)
              /\ Len(unit_out.upside_comparables) = shown
              /\ \A i \in 1..shown :
                    unit_out.upside_comparables[i] =
                        <<survivors[i].formattedAddress, FormatPrice(survivors[i].price)>>
              /\ unit_out.best_offer_comparables = unit_out.upside_comparables

C22_Witness ==
    /\ Scored
    /\ Len(unit_in[2].body) = 6
    /\ unit_in[2].body[1].formattedAddress = "c1"
    /\ Len(unit_out.upside_comparables) = 5
    /\ unit_out.upside_comparables[1] = <<"c6", 301000>>
    /\ unit_out.upside_comparables[5] = <<"c2", 305000>>

\* ---------------------------------------------------------------------------
\* the sold-property query of _analyze_property

\* _analyze_property was called on a listing that has both coordinates
Searching ==
    /\ unit_op = "analyze_property"
    /\ ~CoordinateMissing(unit_in[1])

\* the range [lo, hi] as it is sent
Sent(lo, hi) == [min |-> Number(lo), max |-> Number(hi)]

RangesOfCall ==
    IF unit_op = "get_sale_listings"
    THEN {<<"min_price", "max_price", "price", TRUE>>,
          <<"min_sqft", "max_sqft", "squareFootage", FALSE>>}
    ELSE IF unit_op = "get_sold_properties"
    THEN {<<"bedrooms_min", "bedrooms_max", "bedrooms", FALSE>>,
          <<"bathrooms_min", "bathrooms_max", "bathrooms", FALSE>>,
          <<"sqft_min", "sqft_max", "squareFootage", FALSE>>}
    ELSE {}

\* the bound k of the call as the claim has it serialized
Serialized(args, k, money) ==
    IF k \in DOMAIN args
    THEN [wildcard |-> FALSE, value |-> IF money THEN args[k] \div 100 ELSE args[k]]
    ELSE [wildcard |-> TRUE]

PairSent(r) ==
    /\ r[3] \in DOMAIN unit_out
    /\ unit_out[r[3]] = [min |-> Serialized(unit_in[1], r[1], r[4]),
                         max |-> Serialized(unit_in[1], r[2], r[4])]

\* C24 as stated: every range of a query is sent as a (min, max) pair, an absent bound
\* as "*" and a present bound as its integer value, also when both bounds are absent.
C24_RangeSerialization ==
    \A r \in RangesOfCall : PairSent(r)

\* C24, amended: a range with at least one bound present is sent as a (min, max) pair,
\* an absent bound as "*" and a present bound as its integer value; a range with both
\* bounds absent is not sent at all.
C24_RangeSerializationWhenBounded ==
    \A r \in RangesOfCall :
        IF r[1] \in DOMAIN unit_in[1] \/ r[2] \in DOMAIN unit_in[1]
        THEN PairSent(r)
        ELSE ~(r[3] \in DOMAIN unit_out)

C24_Witness ==
    /\ unit_op = "get_sale_listings"
    /\ "min_price" \in DOMAIN unit_in[1]
    /\ unit_in[1].min_price = Cents(100000) + 99
    /\ ~("max_price" \in DOMAIN unit_in[1])
    /\ unit_out.price = [min |-> Number(100000), max |-> Wildcard]
    /\ ~("min_sqft" \in DOMAIN unit_in[1]) /\ ~("max_sqft" \in DOMAIN unit_in[1])
    /\ ~("squareFootage" \in DOMAIN unit_out)

\* ---------------------------------------------------------------------------
\* the decision over the whole output

DecisionFollowsProfit(a) ==
    a.decision = "Yes" <=> a.upside_profit > self.upside_threshold

\* C26 as stated: every record, errored or scored, under every upside_threshold, has
\* decision "Yes" exactly when its upside_profit is greater than upside_threshold.
C26_DecisionConsistent ==
    unit_op = "analyze_property" => DecisionFollowsProfit(unit_out)

\* C26, amended: a scored record has decision "Yes" exactly when its upside_profit is
\* greater than upside_threshold, for every threshold; an errored record has
\* upside_profit 0 and decision "No" whatever the threshold, which agrees with that rule
\* exactly when upside_threshold is not negative.
C26_DecisionConsistentScored ==
    unit_op = "analyze_property" =>
        IF unit_out.error_message = None
        THEN DecisionFollowsProfit(unit_out)
        ELSE /\ unit_out.upside_profit = 0
             /\ unit_out.decision = "No"
             /\ DecisionFollowsProfit(unit_out) <=> self.upside_threshold >= 0

C26_Witness ==
    /\ Scored
    /\ self.upside_threshold < 0
    /\ unit_out.upside_profit < 0
    /\ unit_out.upside_profit > self.upside_threshold
    /\ unit_out.decision = "Yes"

\* ---------------------------------------------------------------------------
\* the anchor among the displayed comparables

\* C27: the upside_comparables of a scored record have an entry for the comparable
\* whose price is upside_value, however many comparables survive.
C27_AnchorDisplayed ==
    Scored =>
        \E i \in 1..Len(unit_out.upside_comparables) :
            unit_out.upside_comparables[i][2] = FormatPrice(unit_out.upside_value)

\* C28: each range of the sold-property search has its minimum at most its maximum and
\* a lower bound that is not negative, for every listing.
C28_WellFormedRanges ==
    Searching =>
        \A name \in {"bedrooms", "bathrooms", "squareFootage"} :
            /\ calls[1].params[name].min.value <= calls[1].params[name].max.value
            /\ calls[1].params[name].min.value >= 0

\* ---------------------------------------------------------------------------
\* the defaults of the subject

\* the listing does not give the attribute k, or gives 0
Unstated(listing, k) == ~(k \in DOMAIN listing) \/ listing[k] = 0

\* the value the claim has analysed for the attribute k
Analysed(listing, k, default) == IF Unstated(listing, k) THEN default ELSE listing[k]

\* C29: a listing whose square footage is missing or 0 is analysed as 1000 sq ft (on the
\* record, in the range [800, 1400] of the query and in build_up_cost), missing or 0
\* bedrooms and bathrooms as 3 and 2; the record carries these values, not the
\* listing's, also when it is errored.
C29_SubjectDefaults ==
    unit_op = "analyze_property" =>
        LET listing == unit_in[1]
            sqft == Analysed(listing, "squareFootage", 1000)
            beds == Analysed(listing, "bedrooms", 3)
            baths == Analysed(listing, "bathrooms", 2)
        IN  /\ unit_out.square_footage = sqft
            /\ unit_out.bedrooms = beds
            /\ unit_out.bathrooms = baths
            /\ Searching =>
                  /\ calls[1].params.squareFootage = Sent(sqft - 200, sqft + 400)
                  /\ calls[1].params.bedrooms.min = Number(beds)
                  /\ calls[1].params.bathrooms.min = Number(baths)
                  /\ Unstated(listing, "squareFootage") =>
                        calls[1].params.squareFootage = Sent(800, 1400)
            /\ Scored => unit_out.build_up_cost = self.build_up_cost_per_sqft * sqft

C29_Witness ==
    /\ Scored
    /\ "squareFootage" \in DOMAIN unit_in[1] /\ unit_in[1].squareFootage = 0
    /\ "bedrooms" \in DOMAIN unit_in[1] /\ unit_in[1].bedrooms = 0
    /\ "bathrooms" \in DOMAIN unit_in[1] /\ unit_in[1].bathrooms = 0
    /\ unit_out.square_footage = 1000
    /\ unit_out.bedrooms = 3
    /\ unit_out.bathrooms = 2
    /\ calls[1].params.squareFootage = Sent(800, 1400)
    /\ unit_out.build_up_cost = Cents(75000)

\* an errored record with the defaults
C29_WitnessErrored ==
    /\ unit_op = "analyze_property"
    /\ unit_out.error_message = "No coordinates available for property"
    /\ "squareFootage" \in DOMAIN unit_in[1] /\ unit_in[1].squareFootage = 0
    /\ ~("bathrooms" \in DOMAIN unit_in[1])
    /\ unit_out.square_footage = 1000
    /\ unit_out.bedrooms = 3
    /\ unit_out.bathrooms = 2

\* ---------------------------------------------------------------------------
\* main

\* C30: run through main, the pipeline runs, with the configured max_api_calls as the
\* ceiling of the budget check and the configured comp_price_threshold as the upper
\* end of the filter band.
C30_ConfiguredLimits ==
    unit_op = "main" =>
        /\ unit_out.ran
        /\ unit_out.generator.max_api_calls = unit_in[1].rentcast.max_api_calls
        /\ unit_out.generator.comp_price_threshold = unit_in[1].decision.comp_price_threshold

====
